---- MODULE Spec2Model ----
(***************************************************************************)
(* Model of folder-monitot.py: FolderMonitor (sync_queue, sync_timer,      *)
(* sync_lock), its debounce timers (threading.Timer), the flush            *)
(* sync_changes with upload_file / delete_file, and the shutdown path of   *)
(* main.                                                                    *)
(***************************************************************************)
EXTENDS Integers, Sequences, FiniteSets, TLC

\* ---------------------------------------------------------------- bounds
\* Number of Timer objects queue_sync may create (= number of recorded events).
MaxTimers == 2
\* Largest batch whose processing orders are compared.
MaxBatch == 3

\* ------------------------------------------------------------- constants
\* self.sync_timer = None
NoTimer == 0
\* the lock is not held
Free == 0
\* the main thread, as a holder of sync_lock (timer threads are 1..MaxTimers)
MainThread == -1

Paths == {"a", "b"}
\* the action strings FileChangeHandler passes to queue_sync
Actions == {"created", "modified", "deleted"}

VARIABLES
    sync_queue,    \* self.sync_queue: set of (path, action) tuples
    sync_timer,    \* self.sync_timer: id of the Timer object, NoTimer for None
    sync_lock,     \* holder of self.sync_lock: Free, MainThread or a timer id
    timers,        \* sequence of the Timer objects created: "armed" | "fired" | "finished"
    pc,            \* position of main: "loop" | "cancel" | "sync" | "join" | "done"
    batch,         \* list(self.sync_queue) taken by the flush in progress
    todo,          \* items of batch the for loop has not reached yet
    report,        \* the flush in progress: item reached |-> its calls and what it printed
    recorded,      \* history: items recorded since a flush last took its batch
    owed,          \* history: items not yet reached by a flush when shutdown cancelled an armed timer
    applied,       \* history: owed item reached |-> Outcome of its calls
    shutdownTimer, \* history: the armed timer that shutdown cancelled
    env            \* the disk and the remote store, where a flush runs against fixed ones

vars == <<sync_queue, sync_timer, sync_lock, timers, pc, batch, todo, report,
          recorded, owed, applied, shutdownTimer, env>>

Items == Paths \X Actions
TimerIds == 1..MaxTimers
Threads == {MainThread} \cup TimerIds

\* ------------------------------------------------------------ pure parts

\* sync_changes dispatches on the action string: "deleted" deletes, anything else uploads
ActionKind(action) == IF action = "deleted" THEN "Delete" ELSE "Upload"

\* a successful create_file / update_file gives the path a new sha (0 = absent)
NewSha(old) == IF old = 1 THEN 2 ELSE 1

\* the function with the empty domain
Empty == <<>>

Call(op, arg, res) == [op |-> op, arg |-> arg, res |-> res]

IsMutation(c) == c.op \in {"create", "update", "delete"}

\* create_file: succeeds only on a path absent remotely, and may fail in transport
create_file(p, pre, rem) ==
    (IF rem[p] = 0
     THEN {[calls |-> pre \o <<Call("create", 0, "ok")>>, printed |-> "Created",
            remote |-> [rem EXCEPT ![p] = 1]]}
     ELSE {})
    \cup {[calls |-> pre \o <<Call("create", 0, "error")>>, printed |-> "Error uploading",
           remote |-> rem]}

\* upload_file: read the file, get_contents, update_file with the sha found;
\* ANY exception of get_contents or update_file falls into create_file; any
\* exception of open/read or create_file is printed as "Error uploading".
upload_file(p, rem) ==
    LET readFail == {[calls |-> <<Call("read", 0, "IOError")>>, printed |-> "Error uploading",
                      remote |-> rem]}
        read == <<Call("read", 0, "ok")>>
        found == read \o <<Call("get_contents", rem[p], "found")>>
        updateOk == {[calls |-> found \o <<Call("update", rem[p], "ok")>>, printed |-> "Updated",
                      remote |-> [rem EXCEPT ![p] = NewSha(@)]]}
        updateFail == create_file(p, found \o <<Call("update", rem[p], "error")>>, rem)
        notFound == create_file(p, read \o <<Call("get_contents", 0, "NotFound")>>, rem)
        lookupErr == create_file(p, read \o <<Call("get_contents", 0, "error")>>, rem)
    IN  readFail \cup lookupErr
        \cup (IF rem[p] # 0 THEN updateOk \cup updateFail ELSE notFound)

\* delete_file: get_contents, delete_file with the sha found; any exception
\* (the path not found remotely included) is printed as "Error deleting".
delete_file(p, rem) ==
    LET lookupErr == {[calls |-> <<Call("get_contents", 0, "error")>>,
                       printed |-> "Error deleting", remote |-> rem]}
        notFound == {[calls |-> <<Call("get_contents", 0, "NotFound")>>,
                      printed |-> "Error deleting", remote |-> rem]}
        found == <<Call("get_contents", rem[p], "found")>>
        deleteOk == {[calls |-> found \o <<Call("delete", rem[p], "ok")>>,
                      printed |-> "Deleted", remote |-> [rem EXCEPT ![p] = 0]]}
        deleteFail == {[calls |-> found \o <<Call("delete", rem[p], "error")>>,
                        printed |-> "Error deleting", remote |-> rem]}
    IN  lookupErr \cup (IF rem[p] # 0 THEN deleteOk \cup deleteFail ELSE notFound)

\* the body of the for loop of sync_changes for one item: "deleted" items are
\* skipped when the path exists and go to delete_file otherwise, the others go
\* to upload_file when the path exists and are skipped otherwise; an
\* exception of Path(path).exists() is printed as "Sync error".
Skipped(exists, rem) ==
    {[calls |-> <<Call("exists", 0, exists)>>, printed |-> "", remote |-> rem]}

ExistsRaised(rem) ==
    {[calls |-> <<Call("exists", 0, "error")>>, printed |-> "Sync error", remote |-> rem]}

WithExists(exists, runs) ==
    {[r EXCEPT !.calls = <<Call("exists", 0, exists)>> \o @] : r \in runs}

\* the loop body as it would be without "elif Path(path).exists()"
sync_item_nocheck(item, exists, rem) ==
    LET path == item[1]
        action == item[2]
    IN  ExistsRaised(rem) \cup
        IF action = "deleted"
        THEN IF exists
             THEN Skipped("yes", rem)
             ELSE WithExists("no", delete_file(path, rem))
        ELSE WithExists(IF exists THEN "yes" ELSE "no", upload_file(path, rem))

\* the loop body as it would be without "if Path(path).exists(): continue"
sync_item_nodelcheck(item, exists, rem) ==
    LET path == item[1]
        action == item[2]
    IN  ExistsRaised(rem) \cup
        IF action = "deleted"
        THEN WithExists(IF exists THEN "yes" ELSE "no", delete_file(path, rem))
        ELSE IF exists
             THEN WithExists("yes", upload_file(path, rem))
             ELSE Skipped("no", rem)

sync_item(item, exists, rem) ==
    LET path == item[1]
        action == item[2]
    IN  ExistsRaised(rem) \cup
        IF action = "deleted"
        THEN IF exists
             THEN Skipped("yes", rem)
             ELSE WithExists("no", delete_file(path, rem))
        ELSE IF exists
             THEN WithExists("yes", upload_file(path, rem))
             ELSE Skipped("no", rem)

\* the states the remote store can be in, as far as path p goes, when a flush
\* reaches an item: the store is shared with other writers and read afresh by
\* every get_contents. The code never compares two shas, so one sha stands
\* for all of them.
Remotes(p) == {[q \in Paths |-> IF q = p THEN s ELSE 0] : s \in {0, 1}}

\* the messages printed for a caught exception
Errors == {"Error uploading", "Error deleting", "Sync error"}

\* what became of an item, from the calls made for it
Outcome(calls) ==
    IF \E k \in DOMAIN calls : IsMutation(calls[k]) THEN "issued"
    ELSE IF Len(calls) = 1 THEN "skipped"
    ELSE IF calls[2].op = "read" THEN "unread"
    ELSE "unfound"

\* no fixed disk or remote store: exists() and the remote view are drawn anew
\* for every item
NoEnv == [disk |-> {}, remote |-> [p \in Paths |-> 0], remote0 |-> [p \in Paths |-> 0]]

\* ------------------------------------------------------------------ Init
Init ==
    /\ sync_queue = {}
    /\ sync_timer = NoTimer
    /\ sync_lock = Free
    /\ timers = <<>>
    /\ pc = "loop"
    /\ batch = {}
    /\ todo = {}
    /\ report = Empty
    /\ recorded = {}
    /\ owed = {}
    /\ applied = Empty
    /\ shutdownTimer = NoTimer
    /\ env = NoEnv

\* --------------------------------------------------------------- actions

\* Timer.cancel(): stops a timer that is still waiting; no effect once the
\* callback has been started
cancel(ts, t) ==
    IF t # NoTimer /\ ts[t] = "armed" THEN [ts EXCEPT ![t] = "finished"] ELSE ts

\* queue_sync as it would be without "with self.sync_lock"
queue_sync_nolock(file_path, action) ==
    /\ pc # "done"
    /\ Len(timers) < MaxTimers
    /\ sync_queue' = sync_queue \cup {<<file_path, action>>}
    /\ timers' = Append(cancel(timers, sync_timer), "armed")
    /\ sync_timer' = Len(timers) + 1
    /\ recorded' = recorded \cup {<<file_path, action>>}
    /\ UNCHANGED <<sync_lock, pc, batch, todo, report, owed, applied, shutdownTimer, env>>

\* queue_sync as it would be without self.sync_timer.start(): a Timer that is
\* never started never calls sync_changes
queue_sync_nostart(file_path, action) ==
    /\ pc # "done"
    /\ Len(timers) < MaxTimers
    /\ sync_lock = Free
    /\ sync_queue' = sync_queue \cup {<<file_path, action>>}
    /\ timers' = Append(cancel(timers, sync_timer), "finished")
    /\ sync_timer' = Len(timers) + 1
    /\ recorded' = recorded \cup {<<file_path, action>>}
    /\ UNCHANGED <<sync_lock, pc, batch, todo, report, owed, applied, shutdownTimer, env>>

\* FolderMonitor.queue_sync, the whole "with self.sync_lock" block
queue_sync(file_path, action) ==
    /\ pc # "done"
    /\ Len(timers) < MaxTimers
    /\ sync_lock = Free
    /\ sync_queue' = sync_queue \cup {<<file_path, action>>}
    /\ timers' = Append(cancel(timers, sync_timer), "armed")
    /\ sync_timer' = Len(timers) + 1
    /\ recorded' = recorded \cup {<<file_path, action>>}
    /\ UNCHANGED <<sync_lock, pc, batch, todo, report, owed, applied, shutdownTimer, env>>

\* the 30 seconds of a Timer elapse and its thread calls self.sync_changes
timer_fire(t) ==
    /\ t \in DOMAIN timers
    /\ timers[t] = "armed"
    /\ timers' = [timers EXCEPT ![t] = "fired"]
    /\ UNCHANGED <<sync_queue, sync_timer, sync_lock, pc, batch, todo, report, recorded,
                   owed, applied, shutdownTimer, env>>

\* a thread is about to enter sync_changes
AtSyncChanges(th) ==
    IF th = MainThread THEN pc = "sync" ELSE th \in DOMAIN timers /\ timers[th] = "fired"

\* sync_changes returns to its caller
Returned(th) ==
    IF th = MainThread
    THEN pc' = "join" /\ UNCHANGED timers
    ELSE timers' = [timers EXCEPT ![th] = "finished"] /\ UNCHANGED pc

\* sync_changes as it would be with a lock that is tried and not waited for:
\* it returns when the lock is held by another thread
sync_changes_empty_nowait(th) ==
    /\ AtSyncChanges(th)
    /\ sync_lock # Free \/ sync_queue = {}
    /\ Returned(th)
    /\ UNCHANGED <<sync_queue, sync_timer, sync_lock, batch, todo, report, recorded,
                   owed, applied, shutdownTimer, env>>

\* sync_changes: lock taken, queue empty, return
sync_changes_empty(th) ==
    /\ AtSyncChanges(th)
    /\ sync_lock = Free
    /\ sync_queue = {}
    /\ Returned(th)
    /\ UNCHANGED <<sync_queue, sync_timer, sync_lock, batch, todo, report, recorded,
                   owed, applied, shutdownTimer, env>>

\* sync_changes as it would be without "with self.sync_lock"
sync_changes_begin_nolock(th) ==
    /\ AtSyncChanges(th)
    /\ sync_lock # th
    /\ sync_queue # {}
    /\ sync_lock' = th
    /\ batch' = sync_queue
    /\ todo' = sync_queue
    /\ report' = Empty
    /\ recorded' = {}
    /\ UNCHANGED <<sync_queue, sync_timer, timers, pc, owed, applied, shutdownTimer, env>>

\* sync_changes: lock taken, queue not empty, list(self.sync_queue) taken
sync_changes_begin(th) ==
    /\ AtSyncChanges(th)
    /\ sync_lock = Free
    /\ sync_queue # {}
    /\ sync_lock' = th
    /\ batch' = sync_queue
    /\ todo' = sync_queue
    /\ report' = Empty
    /\ recorded' = {}
    /\ UNCHANGED <<sync_queue, sync_timer, timers, pc, owed, applied, shutdownTimer, env>>

\* the for loop as it would be if an error left it (try/except around the
\* loop instead of inside it, and upload_file / delete_file raising)
sync_changes_item_abort(th, item) ==
    /\ sync_lock = th
    /\ item \in todo
    /\ \E exists \in BOOLEAN, rem \in Remotes(item[1]) :
         \E r \in sync_item(item, exists, rem) :
           LET entry == [calls |-> r.calls, printed |-> r.printed]
           IN  /\ report' = (item :> entry) @@ report
               /\ applied' = IF item \in owed
                             THEN (item :> Outcome(r.calls)) @@ applied
                             ELSE applied
               /\ todo' = IF r.printed \in Errors THEN {} ELSE todo \ {item}
    /\ owed' = owed \ {item}
    /\ UNCHANGED <<sync_queue, sync_timer, sync_lock, timers, pc, batch, recorded,
                   shutdownTimer, env>>

\* sync_changes: one iteration of the for loop
sync_changes_item(th, item) ==
    /\ sync_lock = th
    /\ item \in todo
    /\ \E exists \in BOOLEAN, rem \in Remotes(item[1]) :
         \E r \in sync_item(item, exists, rem) :
           LET entry == [calls |-> r.calls, printed |-> r.printed]
           IN  /\ report' = (item :> entry) @@ report
               /\ applied' = IF item \in owed
                             THEN (item :> Outcome(r.calls)) @@ applied
                             ELSE applied
    /\ todo' = todo \ {item}
    /\ owed' = owed \ {item}
    /\ UNCHANGED <<sync_queue, sync_timer, sync_lock, timers, pc, batch, recorded,
                   shutdownTimer, env>>

\* the end of sync_changes as it would be if the failed items were kept queued
sync_changes_clear_requeue(th) ==
    /\ sync_lock = th
    /\ todo = {}
    /\ sync_queue' = {i \in DOMAIN report : report[i].printed \in Errors}
    /\ sync_lock' = Free
    /\ batch' = {}
    /\ report' = Empty
    /\ Returned(th)
    /\ UNCHANGED <<sync_timer, todo, recorded, owed, applied, shutdownTimer, env>>

\* sync_changes: the loop is over, self.sync_queue.clear(), lock released
sync_changes_clear(th) ==
    /\ sync_lock = th
    /\ todo = {}
    /\ sync_queue' = {}
    /\ sync_lock' = Free
    /\ batch' = {}
    /\ report' = Empty
    /\ Returned(th)
    /\ UNCHANGED <<sync_timer, todo, recorded, owed, applied, shutdownTimer, env>>

\* main: KeyboardInterrupt, observer.stop()
keyboard_interrupt ==
    /\ pc = "loop"
    /\ pc' = "cancel"
    /\ UNCHANGED <<sync_queue, sync_timer, sync_lock, timers, batch, todo, report,
                   recorded, owed, applied, shutdownTimer, env>>

\* main as it would be without the final monitor.sync_changes()
shutdown_cancel_nosync ==
    /\ pc = "cancel"
    /\ pc' = "join"
    /\ timers' = cancel(timers, sync_timer)
    /\ IF sync_timer # NoTimer /\ timers[sync_timer] = "armed"
       THEN /\ owed' = IF sync_lock = Free THEN sync_queue ELSE todo
            /\ shutdownTimer' = sync_timer
       ELSE UNCHANGED <<owed, shutdownTimer>>
    /\ UNCHANGED <<sync_queue, sync_timer, sync_lock, batch, todo, report, recorded,
                   applied, env>>

\* main: if monitor.sync_timer: monitor.sync_timer.cancel(); next is
\* monitor.sync_changes()
shutdown_cancel ==
    /\ pc = "cancel"
    /\ pc' = "sync"
    /\ timers' = cancel(timers, sync_timer)
    /\ IF sync_timer # NoTimer /\ timers[sync_timer] = "armed"
       THEN /\ owed' = IF sync_lock = Free THEN sync_queue ELSE todo
            /\ shutdownTimer' = sync_timer
       ELSE UNCHANGED <<owed, shutdownTimer>>
    /\ UNCHANGED <<sync_queue, sync_timer, sync_lock, batch, todo, report, recorded,
                   applied, env>>

\* main: observer.join()
observer_join ==
    /\ pc = "join"
    /\ pc' = "done"
    /\ UNCHANGED <<sync_queue, sync_timer, sync_lock, timers, batch, todo, report,
                   recorded, owed, applied, shutdownTimer, env>>

Next ==
    \/ \E p \in Paths, a \in Actions : queue_sync(p, a)
    \/ \E t \in TimerIds : timer_fire(t)
    \/ \E th \in Threads : sync_changes_empty(th)
    \/ \E th \in Threads : sync_changes_begin(th)
    \/ \E th \in Threads, item \in Items : sync_changes_item(th, item)
    \/ \E th \in Threads : sync_changes_clear(th)
    \/ keyboard_interrupt
    \/ shutdown_cancel
    \/ observer_join

Spec == Init /\ [][Next]_vars

TypeOK ==
    /\ sync_queue \subseteq Items
    /\ sync_timer \in 0..MaxTimers
    /\ sync_lock \in {Free} \cup Threads
    /\ pc \in {"loop", "cancel", "sync", "join", "done"}
    /\ todo \subseteq batch
    /\ DOMAIN report = batch \ todo

\* ------------------------------------------------------------- scheduling
\* What the threads guarantee: an armed timer that is not cancelled expires;
\* a thread at "with self.sync_lock" gets the lock when it stays free; the
\* calls of the loop return; main goes on once interrupted. Neither the
\* watcher (queue_sync) nor the user (KeyboardInterrupt) has to act.
Fairness ==
    /\ WF_vars(\E t \in TimerIds : timer_fire(t))
    /\ WF_vars(\E th \in TimerIds : sync_changes_empty(th) \/ sync_changes_begin(th))
    /\ WF_vars(sync_changes_empty(MainThread) \/ sync_changes_begin(MainThread))
    /\ WF_vars(\E th \in Threads, item \in Items : sync_changes_item(th, item))
    /\ WF_vars(\E th \in Threads : sync_changes_clear(th))
    /\ WF_vars(shutdown_cancel)
    /\ WF_vars(observer_join)

\* the paths the watcher reports events on where progress is checked; the
\* scheduling does not depend on which path an event is about
LivePaths == {"a"}

NextLive ==
    \/ \E p \in LivePaths, a \in Actions : queue_sync(p, a)
    \/ \E t \in TimerIds : timer_fire(t)
    \/ \E th \in Threads : sync_changes_empty(th)
    \/ \E th \in Threads : sync_changes_begin(th)
    \/ \E th \in Threads, item \in Items : sync_changes_item(th, item)
    \/ \E th \in Threads : sync_changes_clear(th)
    \/ keyboard_interrupt
    \/ shutdown_cancel
    \/ observer_join

SpecFair == Init /\ [][NextLive]_vars /\ Fairness

\* ------------------------------------------- a flush on a fixed environment
\* The for loop of sync_changes over a given batch, against a given disk and a
\* given remote store, with remote calls that are deterministic (no transport
\* failure): the items are taken in any order.

\* the run of the loop body when no call fails in transport or in reading
DetRuns(item, disk, rem) ==
    {r \in sync_item(item, item[1] \in disk, rem) :
        \A k \in DOMAIN r.calls : r.calls[k].res \notin {"error", "IOError"}}

InitOrder ==
    /\ sync_queue \in {b \in SUBSET Items : Cardinality(b) \in 1..MaxBatch}
    /\ batch = sync_queue
    /\ todo = sync_queue
    /\ report = Empty
    /\ \E d \in SUBSET Paths, rem \in [Paths -> 0..2] :
         env = [disk |-> d, remote |-> rem, remote0 |-> rem]
    /\ sync_timer = NoTimer
    /\ sync_lock = MainThread
    /\ timers = <<>>
    /\ pc = "sync"
    /\ recorded = {}
    /\ owed = {}
    /\ applied = Empty
    /\ shutdownTimer = NoTimer

\* one iteration of the for loop, on the fixed environment
order_item(item) ==
    /\ item \in todo
    /\ \E r \in DetRuns(item, env.disk, env.remote) :
         /\ report' = (item :> [calls |-> r.calls, printed |-> r.printed]) @@ report
         /\ env' = [env EXCEPT !.remote = r.remote]
    /\ todo' = todo \ {item}
    /\ UNCHANGED <<sync_queue, sync_timer, sync_lock, timers, pc, batch, recorded, owed,
                   applied, shutdownTimer>>

NextOrder == \E item \in Items : order_item(item)

SpecOrder == InitOrder /\ [][NextOrder]_vars

\* ---------------------------------------------------------------- claims

ItemsOf(q, p) == {i \in q : i[1] = p}

KindsOf(q, p) == {ActionKind(i[2]) : i \in ItemsOf(q, p)}

\* a flush is between list(self.sync_queue) and self.sync_queue.clear()
Flushing == sync_lock # Free

\* remote mutations issued for path p by the flush in progress
RECURSIVE CountMutations(_)
CountMutations(calls) ==
    IF calls = <<>> THEN 0
    ELSE (IF IsMutation(Head(calls)) THEN 1 ELSE 0) + CountMutations(Tail(calls))

RECURSIVE SumMutations(_)
SumMutations(is) ==
    IF is = {} THEN 0
    ELSE LET i == CHOOSE x \in is : TRUE
         IN  CountMutations(report[i].calls) + SumMutations(is \ {i})

Mutations(p) == SumMutations(ItemsOf(DOMAIN report, p))

\* C1: in every reachable state sync_queue holds at most one pending action
\* per path (a later event for a path overwrites the earlier entry).
C1_OnePendingPerPath ==
    \A p \in Paths : Cardinality(ItemsOf(sync_queue, p)) <= 1

\* C2: after every queue_sync(p, a), i.e. whatever was recorded for p before
\* since the last flush, the queue holds for p exactly the kind of that last
\* event: Upload for created / modified, Delete for deleted.
C2_LastEventWins ==
    [][\A p \in Paths, a \in Actions :
         queue_sync(p, a) => KindsOf(sync_queue', p) = {ActionKind(a)}]_vars

\* C3: a timer thread is flushing only if its timer is the one armed last,
\* i.e. no queue_sync has completed since that timer was armed.
C3_FlushOnlyAfterQuietPeriod ==
    sync_lock \in TimerIds => sync_lock = Len(timers)

\* C4: no recorded action is lost or handed to two flushes: outside a flush
\* the queue is exactly what was recorded since the last flush took its
\* batch; during a flush the queue is the batch of that flush plus what was
\* recorded since, and the flush clears the queue only after it has
\* processed each item of it.
C4_NoLostNoDuplicate ==
    /\ ~Flushing => sync_queue = recorded /\ batch = {}
    /\ Flushing => sync_queue = batch \cup recorded
    /\ (Flushing /\ todo = {}) => DOMAIN report = sync_queue

C4_Witness ==
    /\ Flushing
    /\ sync_lock \in TimerIds
    /\ todo = {}
    /\ Cardinality(batch) = 2
    /\ DOMAIN report = sync_queue

\* C5: within a flush, whatever was printed for the items reached so far
\* (errors included), every item of the batch not reached yet is still to be
\* reached, and the flush can complete once none is left.
C5_FailureIsolation ==
    Flushing =>
        /\ batch \ DOMAIN report \subseteq todo
        /\ todo = {} => ENABLED sync_changes_clear(sync_lock)

C5_Witness ==
    /\ Flushing
    /\ todo = {}
    /\ \E i, j \in DOMAIN report :
         /\ i[1] # j[1]
         /\ report[i].printed \in Errors
         /\ report[j].printed \in {"Created", "Updated", "Deleted"}

\* C6 as amended: when shutdown has cancelled an armed timer and returned,
\* every item that was pending and not yet reached at the cancel has been
\* reached by a flush; for an Upload whose file existed then, the remote
\* create / update has been issued unless reading the file failed; and the
\* cancelled timer is finished and is not the one flushing.
C6_ShutdownFlush ==
    /\ (pc \in {"join", "done"} /\ shutdownTimer # NoTimer) =>
          /\ owed = {}
          /\ \A i \in DOMAIN applied :
               (ActionKind(i[2]) = "Upload" /\ applied[i] # "skipped")
                   => applied[i] \in {"issued", "unread"}
    /\ shutdownTimer # NoTimer =>
          timers[shutdownTimer] = "finished" /\ sync_lock # shutdownTimer

C6_Witness ==
    /\ pc = "join"
    /\ shutdownTimer # NoTimer
    /\ \E i \in DOMAIN applied : ActionKind(i[2]) = "Upload" /\ applied[i] = "issued"

\* C6 as stated: ... for a pending Upload of an existing file the remote
\* create / update has been issued before shutdown returns.
C6_Original ==
    /\ (pc \in {"join", "done"} /\ shutdownTimer # NoTimer) =>
          /\ owed = {}
          /\ \A i \in DOMAIN applied :
               (ActionKind(i[2]) = "Upload" /\ applied[i] # "skipped")
                   => applied[i] = "issued"
    /\ shutdownTimer # NoTimer =>
          timers[shutdownTimer] = "finished" /\ sync_lock # shutdownTimer

\* C7: the apply phase runs outside the exclusive section: while a flush is
\* applying its batch the lock is free, so that queue_sync can run.
C7_RecordNotBlocked ==
    batch # {} => sync_lock = Free

\* C8: in a flush, at most one remote mutation (create, update or delete) is
\* issued for each path.
C8_OneMutationPerPath ==
    \A p \in Paths : Mutations(p) <= 1

\* C9: an Upload item whose path does not exist when the flush reaches it is
\* skipped: no read, lookup, create or update, nothing printed (no error),
\* and the loop goes on with the rest of the batch.
C9_UploadOfMissingSkipped ==
    \A i \in DOMAIN report :
        (ActionKind(i[2]) = "Upload" /\ report[i].calls[1] = Call("exists", 0, "no"))
            => /\ Len(report[i].calls) = 1
               /\ report[i].printed = ""
               /\ todo = batch \ DOMAIN report

C9_Witness ==
    /\ Flushing
    /\ todo = {}
    /\ \E i, j \in DOMAIN report :
         /\ ActionKind(i[2]) = "Upload"
         /\ report[i].calls = <<Call("exists", 0, "no")>>
         /\ i[1] # j[1]
         /\ report[j].printed = "Created"

\* C10: a Delete item whose path is absent locally and not found remotely
\* ends as a success, not as an error, and issues no remote mutation.
C10_DeleteOfAbsentSucceeds ==
    \A i \in DOMAIN report :
        (/\ ActionKind(i[2]) = "Delete"
         /\ report[i].calls = <<Call("exists", 0, "no"), Call("get_contents", 0, "NotFound")>>)
            => /\ report[i].printed \notin Errors
               /\ Mutations(i[1]) = 0

\* the calls made for an item that carry the given op
CallsOf(calls, op) == {k \in DOMAIN calls : calls[k].op = op}

\* C11: every item a flush has reached has a reported outcome: something was
\* printed for it (success, skipped or failure), the items skipped by the
\* local-existence re-check included.
C11_CompleteReport ==
    \A i \in DOMAIN report : report[i].printed # ""

\* C12: at most one timer can still run sync_changes: armed, or fired with
\* its callback not finished.
C12_OneOutstandingTimer ==
    Cardinality({t \in DOMAIN timers : timers[t] \in {"armed", "fired"}}) <= 1

\* C13: for an Upload item that got as far as the remote lookup, an update
\* carrying the sha looked up is issued iff the lookup found the path, and a
\* create is issued iff the lookup reported the path absent.
C13_UpdateIffFound ==
    \A i \in DOMAIN report :
        LET calls == report[i].calls
        IN  (ActionKind(i[2]) = "Upload" /\ CallsOf(calls, "get_contents") # {}) =>
              LET look == calls[CHOOSE k \in CallsOf(calls, "get_contents") : TRUE]
              IN  /\ (CallsOf(calls, "update") # {}) <=> (look.res = "found")
                  /\ \A k \in CallsOf(calls, "update") : calls[k].arg = look.arg
                  /\ (CallsOf(calls, "create") # {}) <=> (look.res = "NotFound")

\* C14: no retry inside a flush: a remote mutation that failed is the last
\* remote call made for its item, and the item is reported as failed.
C14_NoRetry ==
    \A i \in DOMAIN report :
        LET calls == report[i].calls
        IN  \A k \in DOMAIN calls :
              (IsMutation(calls[k]) /\ calls[k].res = "error")
                  => k = Len(calls) /\ report[i].printed \in Errors

\* C15: a Delete item whose path exists when the flush reaches it is
\* skipped, with no remote lookup and no remote delete; a remote delete is
\* issued only for a Delete item whose path was absent at that moment.
C15_DeleteRechecksLocal ==
    \A i \in DOMAIN report :
        LET calls == report[i].calls
        IN  /\ (ActionKind(i[2]) = "Delete" /\ calls[1] = Call("exists", 0, "yes"))
                 => Len(calls) = 1
            /\ CallsOf(calls, "delete") # {}
                 => ActionKind(i[2]) = "Delete" /\ calls[1] = Call("exists", 0, "no")

C15_Witness ==
    \E i, j \in DOMAIN report :
        /\ ActionKind(i[2]) = "Delete"
        /\ report[i].calls = <<Call("exists", 0, "yes")>>
        /\ ActionKind(j[2]) = "Delete"
        /\ report[j].printed = "Deleted"

\* C16: while a flush is in progress its whole batch is still in the queue
\* (no partly cleared batch is visible), and when the flush completes none
\* of the items of its batch remains queued, whatever was printed for them.
C16_ClearedWhole ==
    /\ [](Flushing => batch \subseteq sync_queue)
    /\ [][(Flushing /\ ~Flushing') => sync_queue' \cap batch = {}]_vars

C16_Witness ==
    /\ Flushing
    /\ todo = {}
    /\ \E i, j \in DOMAIN report :
         /\ report[i].printed \in Errors
         /\ report[j].printed = ""

\* the loop over the items in one fixed order: final remote store and, per
\* path, what was printed
RECURSIVE InOrder(_, _, _, _)
InOrder(items, disk, rem, printed) ==
    IF items = {} THEN [remote |-> rem, printed |-> printed]
    ELSE LET i == CHOOSE x \in items : TRUE
             r == CHOOSE x \in DetRuns(i, disk, rem) : TRUE
         IN  InOrder(items \ {i}, disk, r.remote,
                     [printed EXCEPT ![i[1]] = @ \cup {r.printed}])

PrintedFor(p) == {report[i].printed : i \in ItemsOf(DOMAIN report, p)}

\* C17: whatever the order in which the loop took the items of the batch,
\* on a fixed disk and a fixed initial remote store with deterministic
\* remote calls, the final remote store and the set of outcomes printed per
\* path are those of one fixed order.
C17_OrderIndependent ==
    todo = {} =>
        LET ref == InOrder(batch, env.disk, env.remote0, [p \in Paths |-> {}])
        IN  /\ env.remote = ref.remote
            /\ \A p \in Paths : PrintedFor(p) = ref.printed[p]

C17_Witness ==
    /\ todo = {}
    /\ \E i, j \in DOMAIN report :
         /\ i[1] = j[1]
         /\ report[i].printed = "Created"
         /\ report[j].printed = "Updated"
    /\ \E i \in DOMAIN report : report[i].printed = "Deleted"

\* C18: shutdown (main's call of sync_changes) returns only when no timer
\* thread is flushing; a flush ends only by its clear, with every item of
\* its batch reached; and once shutdown has begun it returns.
C18_ShutdownWaitsForFlush ==
    /\ [][(pc = "sync" /\ pc' = "join") => (sync_lock \notin TimerIds /\ ~Flushing')]_vars
    /\ [][(Flushing /\ ~Flushing') => (todo = {} /\ DOMAIN report = batch)]_vars
    /\ (pc = "cancel") ~> (pc \in {"join", "done"})

C18_Witness ==
    /\ pc = "sync"
    /\ sync_lock \in TimerIds
    /\ todo # {}
    /\ report # Empty

C20_FlushExclusive ==
    [][Flushing =>
          /\ Flushing' => (sync_lock' = sync_lock /\ sync_queue' = sync_queue)
          /\ sync_timer' = sync_timer
          /\ batch' \in {batch, {}}]_vars

C20_Witness ==
    /\ sync_lock \in TimerIds
    /\ todo # {}
    /\ report # Empty
    /\ \E t \in DOMAIN timers : t # sync_lock /\ timers[t] = "fired"

====
